---- MODULE Spec2Model ----
(***************************************************************************)
(* Model of src/rp_handler.py: the RunPod serverless handler that submits  *)
(* a ComfyUI workflow, polls the history endpoint and returns the images.  *)
(*                                                                         *)
(* Python dicts are functions with a finite domain of string keys, in      *)
(* which a missing key is a key outside the DOMAIN.  Dicts whose iteration *)
(* order matters (the workflow, the outputs mapping) are sequences of      *)
(* their values, a node's id being its position.  Python str values that   *)
(* the code inspects character by character (class_type, base64 text) are  *)
(* sequences of one-character strings.                                     *)
(*                                                                         *)
(* Spec is the process from its start: the readiness probe, then the       *)
(* invocations of the handler, one at a time.  RetrySpec is the same       *)
(* process with an engine that also answers a status the session retries.  *)
(* ConcSpec is the save-patch-submit part of two workers' invocations on   *)
(* one mounted volume.                                                     *)
(***************************************************************************)
EXTENDS Integers, Sequences, FiniteSets, TLC

VARIABLES
    pc,               \* position of the handler invocation
    event,            \* the event the framework passed to handler
    validated_input,  \* local `validated_input` (what validate returned)
    workflow,         \* local `workflow` (mutated in place by the patch)
    resp_json,        \* local `resp_json` (decoded body of the last response)
    response,         \* local `queue_response` / `r` (the last response)
    prompt_id,        \* local `prompt_id`
    image_filenames,  \* local `image_filenames`
    images,           \* local `images`
    result,           \* value returned by handler
    raised,           \* the exception raised inside the try block, if any
    escaped,          \* TRUE iff that exception propagated out of handler
    log,              \* I/O operations of the current invocation, in order
    initFile,         \* the file <mount>/ComfyUI/input/init.png
    tries,            \* retries the session has made within the current call
    retries,          \* local `retries` of wait_for_service, modulo LogEvery
    attempt,          \* outcome of the last requests.get of wait_for_service
    probed,           \* TRUE iff some requests.get of wait_for_service
                      \* completed without raising
    notice,           \* what the last pass of wait_for_service logged
    workers           \* the invocations of the workers that share the volume

\* the variables of one handler invocation, apart from pc
handlerVars == <<event, validated_input, workflow, response, resp_json,
                 prompt_id, image_filenames, images, result, raised, escaped,
                 log, initFile, tries>>

\* the variables a handler invocation does not touch
elsewhere == <<retries, attempt, probed, notice, workers>>

vars == <<pc, handlerVars, elsewhere>>

-----------------------------------------------------------------------------
(* Bounds of the model *)

MaxNodes == 2      \* nodes in a workflow
MaxOutputs == 2    \* entries in a history `outputs` mapping
MaxPolls == 2      \* history GETs remembered in the log of one invocation
LiveMaxNodes == 1    \* nodes in a workflow, in the smaller specifications
LiveMaxOutputs == 1  \* entries in `outputs`, in the smaller specifications
ConcMaxNodes == 1    \* nodes in a workflow, with two workers

-----------------------------------------------------------------------------
(* Program constants *)

VOLUME_MOUNT_PATH == "/runpod-volume"

\* wait_for_service: `if retries % 15 == 0`
LogEvery == 15

\* Retry(total=10, ...)
RetryTotal == 10

\* Retry(..., status_forcelist=[502, 503, 504])
StatusForcelist == {502, 503, 504}

\* Retry is built without allowed_methods: the library's default applies,
\* the idempotent methods
AllowedMethods == {"HEAD", "GET", "PUT", "DELETE", "OPTIONS", "TRACE"}

\* save_init_image: os.path.join(input_dir, "init.png")
InitImagePath == <<VOLUME_MOUNT_PATH, "/ComfyUI/input", "/", "init.png">>

\* handler: f'{VOLUME_MOUNT_PATH}/ComfyUI/output/{filename}'
OutputPath(filename) == <<VOLUME_MOUNT_PATH, "/ComfyUI/output/", filename>>

-----------------------------------------------------------------------------
(* Strings *)

EmptyDict == [k \in {} |-> ""]

UpperChars == <<"A","B","C","D","E","F","G","H","I","J","K","L","M",
                "N","O","P","Q","R","S","T","U","V","W","X","Y","Z">>
LowerChars == <<"a","b","c","d","e","f","g","h","i","j","k","l","m",
                "n","o","p","q","r","s","t","u","v","w","x","y","z">>

\* str.lower() on one character
LowerChar(c) ==
    IF \E i \in 1..26 : UpperChars[i] = c
    THEN LowerChars[CHOOSE i \in 1..26 : UpperChars[i] = c]
    ELSE c

\* str.lower()
Lower(s) == [i \in 1..Len(s) |-> LowerChar(s[i])]

\* str.startswith(p)
StartsWith(s, p) == Len(s) >= Len(p) /\ SubSeq(s, 1, Len(p)) = p

LoadImagePrefix == <<"l","o","a","d","i","m","a","g","e">>

-----------------------------------------------------------------------------
(* base64, on sequences of characters and sequences of byte values *)

B64Alphabet == UpperChars \o LowerChars \o
               <<"0","1","2","3","4","5","6","7","8","9","+","/">>

IsB64Char(c) == \E i \in 1..64 : B64Alphabet[i] = c

B64Index(c) == (CHOOSE i \in 1..64 : B64Alphabet[i] = c) - 1

RECURSIVE CountPads(_)
CountPads(s) ==
    IF s = <<>> \/ s[Len(s)] # "=" THEN 0
    ELSE 1 + CountPads(SubSeq(s, 1, Len(s) - 1))

\* the data characters: characters outside the alphabet are discarded
B64Data(s) == SelectSeq(s, IsB64Char)

\* b64decode raises binascii.Error when the trailing group is incomplete
\* and not padded to four characters
B64Valid(s) ==
    LET r == Len(B64Data(s)) % 4
    IN  r = 0 \/ (r >= 2 /\ r + CountPads(s) >= 4)

RECURSIVE B64DecodeData(_)
B64DecodeData(d) ==
    IF Len(d) >= 4
    THEN LET n == B64Index(d[1]) * 262144 + B64Index(d[2]) * 4096
                  + B64Index(d[3]) * 64 + B64Index(d[4])
         IN  <<n \div 65536, (n \div 256) % 256, n % 256>>
             \o B64DecodeData(SubSeq(d, 5, Len(d)))
    ELSE IF Len(d) = 3
    THEN LET n == B64Index(d[1]) * 4096 + B64Index(d[2]) * 64 + B64Index(d[3])
         IN  <<n \div 1024, (n \div 4) % 256>>
    ELSE IF Len(d) = 2
    THEN LET n == B64Index(d[1]) * 64 + B64Index(d[2])
         IN  <<n \div 16>>
    ELSE <<>>

\* base64.b64decode(s), for s with B64Valid(s)
B64Decode(s) == B64DecodeData(B64Data(s))

RECURSIVE B64Encode(_)
\* base64.b64encode(b).decode('utf-8')
B64Encode(b) ==
    IF Len(b) >= 3
    THEN LET n == b[1] * 65536 + b[2] * 256 + b[3]
         IN  <<B64Alphabet[(n \div 262144) + 1],
               B64Alphabet[((n \div 4096) % 64) + 1],
               B64Alphabet[((n \div 64) % 64) + 1],
               B64Alphabet[(n % 64) + 1]>>
             \o B64Encode(SubSeq(b, 4, Len(b)))
    ELSE IF Len(b) = 2
    THEN LET n == (b[1] * 256 + b[2]) * 4
         IN  <<B64Alphabet[(n \div 4096) + 1],
               B64Alphabet[((n \div 64) % 64) + 1],
               B64Alphabet[(n % 64) + 1], "=">>
    ELSE IF Len(b) = 1
    THEN LET n == b[1] * 16
         IN  <<B64Alphabet[(n \div 64) + 1], B64Alphabet[(n % 64) + 1],
               "=", "=">>
    ELSE <<>>

-----------------------------------------------------------------------------
(* Python values *)

\* the value None where a str is expected
PyNone == "<None>"

\* JSON values whose type the code tests with isinstance
PyStr(s) == [type |-> "str", val |-> s]
PyList(l) == [type |-> "list", val |-> l]
PyInt(digits) == [type |-> "int", val |-> digits]

\* dict.get(k), for dicts of str values
Get(d, k) == IF k \in DOMAIN d THEN d[k] ELSE PyNone

\* `v is None` in place of `not v`
Falsy_NoneOnly(v) == v = PyNone

\* `not v`, for v a str or None
Falsy(v) == v = PyNone \/ v = ""

\* d[k] = v
SetItem(d, k, v) == [x \in DOMAIN d \cup {k} |-> IF x = k THEN v ELSE d[x]]

\* an exception: its class and str(e)
Exc(cls, msg) == [cls |-> cls, msg |-> msg]

\* the classes below Exception that the stages of handler raise
ExceptionClasses == {"KeyError", "TypeError", "OSError", "binascii.Error",
                     "ConnectionError", "JSONDecodeError", "RuntimeError",
                     "FileNotFoundError", "RetryError"}

-----------------------------------------------------------------------------
(* Inputs of an invocation *)

CT_LoadImage == <<"L","o","a","d","I","m","a","g","e">>
CT_loadimagemask == <<"l","o","a","d","i","m","a","g","e","m","a","s","k">>
CT_KSampler == <<"K","S","a","m","p","l","e","r">>

OldImage == <<"old.png">>

\* node records: class_type and inputs, either of which may be missing
Node_Load == [class_type |-> CT_LoadImage, inputs |-> [image |-> OldImage]]
Node_Mask == [class_type |-> CT_loadimagemask, inputs |-> EmptyDict]
Node_Sampler == [class_type |-> CT_KSampler, inputs |-> [image |-> OldImage]]
Node_NoClass == [inputs |-> EmptyDict]
Node_NoInputs == [class_type |-> CT_LoadImage]

Nodes == {Node_Load, Node_Mask, Node_Sampler, Node_NoClass, Node_NoInputs}

\* the workflows of at most n nodes, a workflow being its nodes in
\* iteration order
WorkflowsUpTo(n) == UNION {[1..k -> Nodes] : k \in 0..n}

Workflows == WorkflowsUpTo(MaxNodes)

Image_ABC == <<"Q","U","J","D">>     \* base64 of the bytes 65, 66, 67
Image_Bad == <<"Q","U","J">>         \* incorrectly padded
Image_AB == <<"Q","U","I","=">>      \* base64 of the bytes 65, 66

InitImages == {PyStr(Image_ABC), PyStr(Image_Bad), PyInt(<<"7">>)}

\* the payloads the validator can hand back, over a set of workflows
Payloads(workflows) ==
    {wf @@ img :
        wf \in {EmptyDict} \cup {[workflow |-> w] : w \in workflows},
        img \in {EmptyDict} \cup {[init_image |-> i] : i \in InitImages}}

ErrorLists == {<<"workflow is required">>,
               <<"init_image must be str", "unexpected input seed">>}

\* what validate(event['input'], INPUT_SCHEMA) can return
ValidateResults(workflows) ==
    {[errors |-> l] : l \in ErrorLists}
    \cup {[validated_input |-> p] : p \in Payloads(workflows)}

Events == {EmptyDict, [input |-> "job"]}

-----------------------------------------------------------------------------
(* Answers of the rendering engine and the output directory *)

StatusCodes == {200, 500}

\* a status of the forcelist, as an overloaded engine or proxy answers it
TransientCodes == {503}

\* a response: response, whether the body decodes as JSON, its decoding
Response(st, ok, js) == [status_code |-> st, decodes |-> ok, json |-> js]

\* no response: the request raised, or none was sent yet
NoResponse == Response(0, FALSE, EmptyDict)

PromptIds == {"abc", ""}

\* decoded bodies of a POST to 'prompt' that the engine accepted
PostBodies ==
    {[prompt_id |-> i, number |-> "1"] : i \in PromptIds}
    \cup {[number |-> "1"]}

\* decoded bodies of a POST to 'prompt' that the engine rejected
ErrorBodies == {[detail |-> "bad node"], [error |-> "bad node"]}

PostResponses ==
    {Response(200, TRUE, b) : b \in PostBodies}
    \cup {Response(500, TRUE, b) : b \in ErrorBodies}
    \cup {Response(st, FALSE, EmptyDict) : st \in StatusCodes}
    \cup {Response(st, ok, EmptyDict) : st \in TransientCodes,
                                        ok \in BOOLEAN}

File_out == [filename |-> "out.png"]
File_b == [filename |-> "b.png"]

ImageLists == {<<>>, <<File_b>>, <<File_out, File_b>>, <<EmptyDict>>}

\* a node-output entry of the history
NodeOutputs ==
    {EmptyDict, [images |-> PyStr(<<>>)]}
    \cup {[images |-> PyList(l)] : l \in ImageLists}

\* the outputs mappings of at most n entries, in stored order
OutputsMapsUpTo(n) == UNION {[1..k -> NodeOutputs] : k \in 0..n}

OutputsMaps == OutputsMapsUpTo(MaxOutputs)

HistoryEntries(maps) == {EmptyDict} \cup {[outputs |-> o] : o \in maps}

\* decoded bodies of GET history/{id}
HistoryBodies(id, maps) ==
    {EmptyDict, [other |-> EmptyDict]}
    \cup {[k \in {id} |-> e] : e \in HistoryEntries(maps)}

HistoryResponses(id, maps, transient) ==
    {Response(200, TRUE, b) : b \in HistoryBodies(id, maps)}
    \cup {Response(500, TRUE, b) : b \in {EmptyDict, [k \in {id} |-> EmptyDict]}}
    \cup {Response(st, FALSE, EmptyDict) : st \in StatusCodes}
    \cup {Response(st, FALSE, EmptyDict) : st \in transient}

\* content of an output file
FileBytes(filename) ==
    IF filename = "out.png" THEN <<137, 80, 78, 71>> ELSE <<66>>

NoFile == [exists |-> FALSE, data |-> <<>>]
FileOf(bytes) == [exists |-> TRUE, data |-> bytes]

-----------------------------------------------------------------------------
(* Pure parts of the handler *)

ReprTable == [input |-> "'input'", inputs |-> "'inputs'",
              outputs |-> "'outputs'", filename |-> "'filename'",
              abc |-> "'abc'"]

\* str(KeyError(k))
Repr(k) == IF k \in DOMAIN ReprTable THEN ReprTable[k] ELSE "'?'"

NoExc == Exc("none", "")

\* node.get("class_type", "")
ClassTypeOf(node) ==
    IF "class_type" \in DOMAIN node THEN node.class_type ELSE <<>>

\* node.get("class_type", "").lower().startswith("loadimage")
IsLoadImage(node) == StartsWith(Lower(ClassTypeOf(node)), LoadImagePrefix)

\* node["inputs"]["image"] = image_path
PatchNode(node, image_path) ==
    SetItem(node, "inputs", SetItem(node.inputs, "image", image_path))

RECURSIVE PatchLoop_NoBreak(_, _, _)
\* the loop without its break: every matching node is patched
PatchLoop_NoBreak(w, i, image_path) ==
    IF i > Len(w) THEN [workflow |-> w, exc |-> NoExc]
    ELSE IF IsLoadImage(w[i])
    THEN IF "inputs" \in DOMAIN w[i]
         THEN PatchLoop_NoBreak([w EXCEPT ![i] = PatchNode(w[i], image_path)],
                                i + 1, image_path)
         ELSE [workflow |-> w, exc |-> Exc("KeyError", Repr("inputs"))]
    ELSE PatchLoop_NoBreak(w, i + 1, image_path)

RECURSIVE PatchLoop_AfterLoop(_, _, _)
\* the assignment placed after the loop: when no node matches, the node the
\* loop variable is left on (the last one) is patched
PatchLoop_AfterLoop(w, i, image_path) ==
    IF i > Len(w)
    THEN IF w = <<>> \/ "inputs" \notin DOMAIN w[Len(w)]
         THEN [workflow |-> w, exc |-> NoExc]
         ELSE [workflow |-> [w EXCEPT ![Len(w)] = PatchNode(w[Len(w)], image_path)],
               exc |-> NoExc]
    ELSE IF IsLoadImage(w[i])
    THEN IF "inputs" \in DOMAIN w[i]
         THEN [workflow |-> [w EXCEPT ![i] = PatchNode(w[i], image_path)],
               exc |-> NoExc]
         ELSE [workflow |-> w, exc |-> Exc("KeyError", Repr("inputs"))]
    ELSE PatchLoop_AfterLoop(w, i + 1, image_path)

RECURSIVE PatchLoop_SkipPatched(_, _, _)
\* a node whose inputs.image already is the path is passed over
PatchLoop_SkipPatched(w, i, image_path) ==
    IF i > Len(w) THEN [workflow |-> w, exc |-> NoExc]
    ELSE IF IsLoadImage(w[i])
            /\ ~("inputs" \in DOMAIN w[i] /\ "image" \in DOMAIN w[i].inputs
                  /\ w[i].inputs.image = image_path)
    THEN IF "inputs" \in DOMAIN w[i]
         THEN [workflow |-> [w EXCEPT ![i] = PatchNode(w[i], image_path)],
               exc |-> NoExc]
         ELSE [workflow |-> w, exc |-> Exc("KeyError", Repr("inputs"))]
    ELSE PatchLoop_SkipPatched(w, i + 1, image_path)

RECURSIVE PatchLoop(_, _, _)
\* the loop over workflow.items(), from the i-th node on: the workflow it
\* leaves and the exception it raises, if any
PatchLoop(w, i, image_path) ==
    IF i > Len(w) THEN [workflow |-> w, exc |-> NoExc]
    ELSE IF IsLoadImage(w[i])
    THEN IF "inputs" \in DOMAIN w[i]
         THEN [workflow |-> [w EXCEPT ![i] = PatchNode(w[i], image_path)],
               exc |-> NoExc]
         ELSE [workflow |-> w, exc |-> Exc("KeyError", Repr("inputs"))]
    ELSE PatchLoop(w, i + 1, image_path)

\* the test without its isinstance check
HasInitImage_AnyType(payload) == "init_image" \in DOMAIN payload

\* 'init_image' in payload and isinstance(payload['init_image'], str)
HasInitImage(payload) ==
    "init_image" \in DOMAIN payload /\ payload.init_image.type = "str"

RECURSIVE get_filenames_AnyType(_)
\* without the isinstance test
get_filenames_AnyType(output) ==
    IF output = <<>> THEN <<>>
    ELSE IF "images" \in DOMAIN Head(output)
    THEN Head(output).images.val
    ELSE get_filenames_AnyType(Tail(output))

RECURSIVE get_filenames(_)
\* the images of the first entry that has an 'images' list, else []
get_filenames(output) ==
    IF output = <<>> THEN <<>>
    ELSE IF "images" \in DOMAIN Head(output)
            /\ Head(output).images.type = "list"
    THEN Head(output).images.val
    ELSE get_filenames(Tail(output))

\* only the first error is reported
ValidationFailure_First(v) == [error |-> <<Head(v.errors)>>]

\* the value returned when validation reports errors
ValidationFailure(v) == [error |-> v.errors]

\* another message
MissingWorkflow_Message == [error |-> "Missing workflow"]

\* the value returned when the payload has no workflow
MissingWorkflow == [error |-> "Missing workflow in payload"]

\* the JSON body of the POST to 'prompt'
PostBody(w) == [prompt |-> w]

\* the identifier read from another key of the body
PromptIdOf_WrongKey(body) == Get(body, "number")

\* resp_json.get('prompt_id')
PromptIdOf(body) == Get(body, "prompt_id")

\* `or` in place of `and`
PollDone_Or(status, body) == status = 200 \/ Cardinality(DOMAIN body) # 0

\* the emptiness test inverted
PollDone_Empty(status, body) == status = 200 /\ Cardinality(DOMAIN body) = 0

\* r.status_code == 200 and len(resp_json)
PollDone(status, body) == status = 200 /\ Cardinality(DOMAIN body) # 0

\* `is None` in place of `not`: a mapping is never None
NoOutputs_IsNone(outputs) == FALSE

\* not resp_json[prompt_id]['outputs']
NoOutputs(outputs) == outputs = <<>>

\* images.insert(0, ...) in place of images.append(...)
AppendImage_Prepend(imgs, encoded) == <<encoded>> \o imgs

\* images.append(...)
AppendImage(imgs, encoded) == Append(imgs, encoded)

\* the images read so far are returned with the error
ErrorResult_Partial(e) == [error |-> e.msg, images |-> images]

\* {'error': str(e)}
ErrorResult(e) == [error |-> e.msg]

\* every method is retried on a status of the forcelist
IsRetried_AnyMethod(method, status) == status \in StatusForcelist

\* Retry.is_retry, as HTTPAdapter(max_retries=retries) applies it to a
\* response: the method is one retried on status, the status is listed
IsRetried(method, status) ==
    method \in AllowedMethods /\ status \in StatusForcelist

\* outcomes of requests.get(url) in wait_for_service
NoAttempt == [kind |-> "none", status |-> 0]
ProbeOutcomes ==
    {[kind |-> "response", status |-> st] : st \in StatusCodes}
    \cup {[kind |-> k, status |-> 0] : k \in {"RequestException", "Exception"}}

\* the loop is left after any attempt
ProbeReturns_Always(outcome) == TRUE

\* `return` follows requests.get(url) when it did not raise
ProbeReturns(outcome) == outcome.kind = "response"

\* only `except requests.exceptions.RequestException`
ProbeCaught_RequestOnly(outcome) == outcome.kind = "RequestException"

\* `except requests.exceptions.RequestException` and `except Exception`
ProbeCaught(outcome) == outcome.kind \in {"RequestException", "Exception"}

\* `except RuntimeError` in place of `except Exception`
IsCaught_RuntimeError(e) == e.cls = "RuntimeError"

\* `except Exception` catches e
IsCaught(e) == e.cls \in ExceptionClasses

NotReturned == [returned |-> FALSE]

\* one more entry in the log; history GETs beyond MaxPolls are not recorded
Logged(entry) ==
    IF entry.op = "get"
       /\ Cardinality({i \in 1..Len(log) : log[i].op = "get"}) >= MaxPolls
    THEN log
    ELSE Append(log, entry)

-----------------------------------------------------------------------------
(* Two workers on one volume *)

\* the worker processes of the endpoint, which mount the same volume
Workers == {"A", "B"}

\* the init images the two invocations supply
ConcImages == {Image_ABC, Image_AB}

\* a worker between invocations
IdleWorker ==
    [pc |-> "idle", init_image |-> <<>>, workflow |-> <<>>,
     posted |-> FALSE, fileAtPost |-> NoFile]

\* f.write(data) on a file opened at offset 0: bytes beyond the data stay
Overwrite(old, data) == data \o SubSeq(old, Len(data) + 1, Len(old))

-----------------------------------------------------------------------------
(* The invocation *)

Init ==
    /\ pc = "probe"
    /\ event = EmptyDict
    /\ validated_input = EmptyDict
    /\ workflow = <<>>
    /\ resp_json = EmptyDict
    /\ response = NoResponse
    /\ prompt_id = PyNone
    /\ image_filenames = <<>>
    /\ images = <<>>
    /\ result = NotReturned
    /\ raised = NoExc
    /\ escaped = FALSE
    /\ log = <<>>
    /\ initFile = NoFile
    /\ tries = 0
    /\ retries = 0
    /\ attempt = NoAttempt
    /\ probed = FALSE
    /\ notice = ""
    /\ workers = [w \in Workers |-> IdleWorker]

\* wait_for_service: one pass of `while True`, up to the return or the sleep
Probe ==
    /\ pc = "probe"
    /\ UNCHANGED <<handlerVars, workers>>
    /\ \E o \in ProbeOutcomes :
          /\ attempt' = o
          /\ probed' = (probed \/ o.kind = "response")
          /\ IF ProbeReturns(o)
             THEN /\ pc' = "ready"
                  /\ notice' = ""
                  /\ UNCHANGED retries
             ELSE IF ProbeCaught(o)
             THEN /\ pc' = "probe_sleep"
                  /\ IF o.kind = "RequestException"
                     THEN /\ retries' = (retries + 1) % LogEvery
                          /\ notice' = IF retries' = 0
                                       THEN "Service not ready yet. Retrying..."
                                       ELSE ""
                     ELSE /\ notice' = "Error"
                          /\ UNCHANGED retries
             ELSE /\ pc' = "crashed"
                  /\ notice' = ""
                  /\ UNCHANGED retries

\* wait_for_service: time.sleep(0.2)
ProbeSleep ==
    /\ pc = "probe_sleep"
    /\ pc' = "probe"
    /\ UNCHANGED <<handlerVars, elsewhere>>

\* __main__ after wait_for_service returned: runpod.serverless.start
Start ==
    /\ pc = "ready"
    /\ pc' = "idle"
    /\ retries' = 0
    /\ attempt' = NoAttempt
    /\ notice' = "Starting RunPod Serverless..."
    /\ UNCHANGED <<handlerVars, probed, workers>>

\* the framework calls handler(event)
Invoke ==
    /\ pc = "idle"
    /\ \E e \in Events : event' = e
    /\ pc' = "validate"
    /\ validated_input' = EmptyDict
    /\ workflow' = <<>>
    /\ resp_json' = EmptyDict
    /\ response' = NoResponse
    /\ prompt_id' = PyNone
    /\ image_filenames' = <<>>
    /\ images' = <<>>
    /\ result' = NotReturned
    /\ raised' = NoExc
    /\ escaped' = FALSE
    /\ log' = <<>>
    /\ tries' = 0
    /\ UNCHANGED <<initFile, elsewhere>>

\* `return v`
Return(v) ==
    /\ pc' = "done"
    /\ result' = v
    /\ UNCHANGED <<raised, escaped>>

\* an exception e raised inside the try block
Raise(e) ==
    /\ pc' = "done"
    /\ raised' = e
    /\ IF IsCaught(e)
       THEN result' = ErrorResult(e) /\ escaped' = FALSE
       ELSE result' = NotReturned /\ escaped' = TRUE

\* validation and the workflow check, the validator handing back a workflow
\* of the given set
ValidateOver(workflows) ==
    /\ pc = "validate"
    /\ UNCHANGED <<tries, elsewhere>>
    /\ UNCHANGED <<event, resp_json, response, prompt_id, image_filenames,
                   images, log, initFile>>
    /\ \/ /\ "input" \notin DOMAIN event
          /\ Raise(Exc("KeyError", Repr("input")))
          /\ UNCHANGED <<validated_input, workflow>>
       \/ /\ "input" \in DOMAIN event
          /\ Raise(Exc("TypeError", "validate failed"))
          /\ UNCHANGED <<validated_input, workflow>>
       \/ /\ "input" \in DOMAIN event
          /\ \E v \in ValidateResults(workflows) :
                /\ validated_input' = v
                /\ IF "errors" \in DOMAIN v
                   THEN Return(ValidationFailure(v)) /\ UNCHANGED workflow
                   ELSE IF "workflow" \notin DOMAIN v.validated_input
                   THEN /\ Return(MissingWorkflow)
                        /\ UNCHANGED workflow
                   ELSE /\ workflow' = v.validated_input.workflow
                        /\ pc' = "patch"
                        /\ UNCHANGED <<result, raised, escaped>>

Validate == ValidateOver(Workflows)

\* the optional init_image: save_init_image, then the patch loop
SaveAndPatch ==
    /\ pc = "patch"
    /\ UNCHANGED <<tries, elsewhere>>
    /\ UNCHANGED <<event, validated_input, resp_json, response, prompt_id,
                   image_filenames, images>>
    /\ LET payload == validated_input.validated_input
       IN  IF HasInitImage(payload)
           THEN \/ \* os.makedirs or open raises
                   /\ Raise(Exc("OSError", "Permission denied"))
                   /\ UNCHANGED <<workflow, log, initFile>>
                \/ \* open(image_path, "wb") truncates, b64decode raises
                   /\ ~B64Valid(payload.init_image.val)
                   /\ log' = Logged([op |-> "write", path |-> InitImagePath])
                   /\ initFile' = FileOf(<<>>)
                   /\ Raise(Exc("binascii.Error", "Incorrect padding"))
                   /\ UNCHANGED workflow
                \/ /\ B64Valid(payload.init_image.val)
                   /\ log' = Logged([op |-> "write", path |-> InitImagePath])
                   /\ initFile' = FileOf(B64Decode(payload.init_image.val))
                   /\ LET p == PatchLoop(workflow, 1, InitImagePath)
                      IN  /\ workflow' = p.workflow
                          /\ IF p.exc = NoExc
                             THEN /\ pc' = "submit"
                                  /\ UNCHANGED <<result, raised, escaped>>
                             ELSE Raise(p.exc)
           ELSE /\ pc' = "submit"
                /\ UNCHANGED <<workflow, result, raised, escaped, log,
                               initFile>>

\* the session meets a response it retries: it sends the request again,
\* unseen by the handler, or raises once RetryTotal retries are used up
Resend(op, what) ==
    IF tries < RetryTotal
    THEN /\ tries' = tries + 1
         /\ UNCHANGED <<pc, response, resp_json, prompt_id, result, raised,
                        escaped, log>>
    ELSE /\ log' = Logged(IF op = "post"
                          THEN [op |-> op, body |-> what, reply |-> NoResponse]
                          ELSE [op |-> op, id |-> what])
         /\ Raise(Exc("RetryError", "too many 503 error responses"))
         /\ UNCHANGED <<response, resp_json, prompt_id, tries>>

\* send_post_request('prompt', {'prompt': workflow}) and its checks
Submit ==
    /\ pc = "submit"
    /\ UNCHANGED elsewhere
    /\ UNCHANGED <<event, validated_input, workflow, image_filenames, images,
                   initFile>>
    /\ \/ \* session.post raises
          /\ log' = Logged([op |-> "post", body |-> PostBody(workflow),
                            reply |-> NoResponse])
          /\ Raise(Exc("ConnectionError", "Connection refused"))
          /\ UNCHANGED <<response, resp_json, prompt_id, tries>>
       \/ \E r \in PostResponses :
             IF IsRetried("POST", r.status_code)
             THEN Resend("post", PostBody(workflow))
             ELSE
             /\ log' = Logged([op |-> "post", body |-> PostBody(workflow),
                               reply |-> r])
             /\ response' = r
             /\ tries' = 0
             /\ IF ~r.decodes
                THEN /\ Raise(Exc("JSONDecodeError", "Expecting value"))
                     /\ UNCHANGED <<resp_json, prompt_id>>
                ELSE /\ resp_json' = r.json
                     /\ IF r.status_code # 200
                        THEN Return(r.json) /\ UNCHANGED prompt_id
                        ELSE /\ prompt_id' = PromptIdOf(r.json)
                             /\ IF Falsy(prompt_id')
                                THEN Return([error |->
                                        "No prompt_id returned by ComfyUI"])
                                ELSE /\ pc' = "poll"
                                     /\ UNCHANGED <<result, raised, escaped>>

\* one iteration of the polling loop, up to the break or the sleep, the
\* engine reporting an outputs mapping of the given set
PollOver(maps, transient) ==
    /\ pc = "poll"
    /\ UNCHANGED elsewhere
    /\ UNCHANGED <<event, validated_input, workflow, prompt_id,
                   image_filenames, images, initFile>>
    /\ \/ \* session.get raises
          /\ log' = Logged([op |-> "get", id |-> prompt_id])
          /\ Raise(Exc("ConnectionError", "Connection refused"))
          /\ UNCHANGED <<response, resp_json, tries>>
       \/ \E r \in HistoryResponses(prompt_id, maps, transient) :
             IF IsRetried("GET", r.status_code)
             THEN Resend("get", prompt_id)
             ELSE
             /\ log' = Logged([op |-> "get", id |-> prompt_id])
             /\ response' = r
             /\ tries' = 0
             /\ IF ~r.decodes
                THEN /\ Raise(Exc("JSONDecodeError", "Expecting value"))
                     /\ UNCHANGED resp_json
                ELSE /\ resp_json' = r.json
                     /\ IF PollDone(r.status_code, r.json)
                        THEN pc' = "check"
                        ELSE pc' = "sleep"
                     /\ UNCHANGED <<result, raised, escaped>>

Poll == PollOver(OutputsMaps, {})

\* time.sleep(0.2) at the end of an iteration
Sleep ==
    /\ pc = "sleep"
    /\ UNCHANGED <<tries, elsewhere>>
    /\ pc' = "poll"
    /\ UNCHANGED <<event, validated_input, workflow, resp_json, response,
                   prompt_id, image_filenames, images, result, raised, escaped,
                   log, initFile>>

\* after the loop: the outputs check and get_filenames
CheckOutputs ==
    /\ pc = "check"
    /\ UNCHANGED <<tries, elsewhere>>
    /\ UNCHANGED <<event, validated_input, workflow, resp_json, response,
                   prompt_id, log, initFile>>
    /\ IF prompt_id \notin DOMAIN resp_json
       THEN /\ Raise(Exc("KeyError", Repr(prompt_id)))
            /\ UNCHANGED <<image_filenames, images>>
       ELSE IF "outputs" \notin DOMAIN resp_json[prompt_id]
       THEN /\ Raise(Exc("KeyError", Repr("outputs")))
            /\ UNCHANGED <<image_filenames, images>>
       ELSE IF NoOutputs(resp_json[prompt_id].outputs)
       THEN /\ Raise(Exc("RuntimeError",
                     "No output found, check model and workflow validity"))
            /\ UNCHANGED <<image_filenames, images>>
       ELSE /\ image_filenames' = get_filenames(resp_json[prompt_id].outputs)
            /\ images' = <<>>
            /\ pc' = "read"
            /\ UNCHANGED <<result, raised, escaped>>

\* one iteration of the loop over image_filenames
ReadImage ==
    /\ pc = "read"
    /\ UNCHANGED <<tries, elsewhere>>
    /\ Len(images) < Len(image_filenames)
    /\ UNCHANGED <<event, validated_input, workflow, resp_json, response,
                   prompt_id, image_filenames, initFile>>
    /\ LET image_filename == image_filenames[Len(images) + 1]
       IN  IF "filename" \notin DOMAIN image_filename
           THEN /\ Raise(Exc("KeyError", Repr("filename")))
                /\ UNCHANGED <<images, log>>
           ELSE /\ log' = Logged([op |-> "read",
                                  path |-> OutputPath(image_filename.filename)])
                /\ \/ /\ Raise(Exc("FileNotFoundError",
                                   "No such file or directory"))
                      /\ UNCHANGED images
                   \/ /\ images' = AppendImage(images,
                              B64Encode(FileBytes(image_filename.filename)))
                      /\ UNCHANGED <<pc, result, raised, escaped>>

\* return {'images': images}
ReturnImages ==
    /\ pc = "read"
    /\ UNCHANGED <<tries, elsewhere>>
    /\ Len(images) = Len(image_filenames)
    /\ Return([images |-> images])
    /\ UNCHANGED <<event, validated_input, workflow, resp_json, response,
                   prompt_id, image_filenames, images, log, initFile>>

\* what the steps of the two workers leave alone
single == <<pc, event, validated_input, workflow, response, resp_json,
            prompt_id, image_filenames, images, result, raised, escaped, log,
            tries, retries, attempt, probed, notice>>

\* both workers started, no invocation yet
ConcInit ==
    /\ pc = "idle"
    /\ event = EmptyDict
    /\ validated_input = EmptyDict
    /\ workflow = <<>>
    /\ resp_json = EmptyDict
    /\ response = NoResponse
    /\ prompt_id = PyNone
    /\ image_filenames = <<>>
    /\ images = <<>>
    /\ result = NotReturned
    /\ raised = NoExc
    /\ escaped = FALSE
    /\ log = <<>>
    /\ initFile = NoFile
    /\ tries = 0
    /\ retries = 0
    /\ attempt = NoAttempt
    /\ probed = TRUE
    /\ notice = "Starting RunPod Serverless..."
    /\ workers = [w \in Workers |-> IdleWorker]

\* the framework of worker w calls handler with a valid payload that
\* carries an init_image
CInvoke(w) ==
    /\ workers[w].pc = "idle"
    /\ \E img \in ConcImages, wf \in WorkflowsUpTo(ConcMaxNodes) :
          workers' = [workers EXCEPT ![w] =
                         [IdleWorker EXCEPT !.pc = "open",
                                            !.init_image = img,
                                            !.workflow = wf]]
    /\ UNCHANGED <<single, initFile>>

\* save_init_image: open(image_path, "wb") truncates the file
COpen(w) ==
    /\ workers[w].pc = "open"
    /\ initFile' = FileOf(<<>>)
    /\ workers' = [workers EXCEPT ![w].pc = "write"]
    /\ UNCHANGED single

\* save_init_image: f.write(base64.b64decode(base64_str)) and the close
CWrite(w) ==
    /\ workers[w].pc = "write"
    /\ initFile' = FileOf(Overwrite(initFile.data,
                                    B64Decode(workers[w].init_image)))
    /\ workers' = [workers EXCEPT ![w].pc = "patch"]
    /\ UNCHANGED single

\* the patch loop of worker w
CPatch(w) ==
    /\ workers[w].pc = "patch"
    /\ LET p == PatchLoop(workers[w].workflow, 1, InitImagePath)
       IN  workers' = [workers EXCEPT
                         ![w].workflow = p.workflow,
                         ![w].pc = IF p.exc = NoExc THEN "submit" ELSE "done"]
    /\ UNCHANGED <<single, initFile>>

\* send_post_request('prompt', {'prompt': workflow}) of worker w
CSubmit(w) ==
    /\ workers[w].pc = "submit"
    /\ workers' = [workers EXCEPT ![w].pc = "done",
                                  ![w].posted = TRUE,
                                  ![w].fileAtPost = initFile]
    /\ UNCHANGED <<single, initFile>>

ConcNext ==
    \E w \in Workers :
       \/ CInvoke(w)
       \/ COpen(w)
       \/ CWrite(w)
       \/ CPatch(w)
       \/ CSubmit(w)

ConcSpec == ConcInit /\ [][ConcNext]_vars

Next ==
    \/ Probe
    \/ ProbeSleep
    \/ Start
    \/ Invoke
    \/ Validate
    \/ SaveAndPatch
    \/ Submit
    \/ Poll
    \/ Sleep
    \/ CheckOutputs
    \/ ReadImage
    \/ ReturnImages

Spec == Init /\ [][Next]_vars

\* the same steps over the smaller inputs of the liveness specification
LiveValidate == ValidateOver(WorkflowsUpTo(LiveMaxNodes))

LivePoll == PollOver(OutputsMapsUpTo(LiveMaxOutputs), {})

\* the same step, the engine also answering a status of the forcelist
RetryPoll == PollOver(OutputsMapsUpTo(LiveMaxOutputs), TransientCodes)

RetryNext ==
    \/ Probe
    \/ ProbeSleep
    \/ Start
    \/ Invoke
    \/ LiveValidate
    \/ SaveAndPatch
    \/ Submit
    \/ RetryPoll
    \/ Sleep
    \/ CheckOutputs
    \/ ReadImage
    \/ ReturnImages

RetrySpec == Init /\ [][RetryNext]_vars

LiveNext ==
    \/ Probe
    \/ ProbeSleep
    \/ Start
    \/ Invoke
    \/ LiveValidate
    \/ SaveAndPatch
    \/ Submit
    \/ LivePoll
    \/ Sleep
    \/ CheckOutputs
    \/ ReadImage
    \/ ReturnImages

\* the engine answers a history GET with status 200 and a non-empty body
PollAnswered ==
    /\ LivePoll
    /\ raised' = NoExc
    /\ response'.status_code = 200
    /\ response'.decodes
    /\ response'.json # EmptyDict

\* every step of the handler is eventually taken (every call returns) and
\* the engine eventually answers a history GET with a populated body
LiveSpec ==
    Init /\ [][LiveNext]_vars /\ WF_vars(LiveNext) /\ SF_vars(PollAnswered)

-----------------------------------------------------------------------------
(* Properties *)

\* positions in the log of the operations of one kind
LogIdx(op) == {i \in 1..Len(log) : log[i].op = op}

HasPayload == "validated_input" \in DOMAIN validated_input

\* the validated payload
Payload == validated_input.validated_input

HasWorkflow == HasPayload /\ "workflow" \in DOMAIN Payload

\* the workflow as the validator handed it over
InputWorkflow == Payload.workflow

\* the payload carries an init_image that is a string
SuppliesInitImage ==
    /\ HasPayload
    /\ "init_image" \in DOMAIN Payload
    /\ Payload.init_image.type = "str"

SomeLoadImage(w) == \E i \in 1..Len(w) : IsLoadImage(w[i])

FirstLoadImage(w) ==
    CHOOSE i \in 1..Len(w) :
        IsLoadImage(w[i]) /\ \A j \in 1..(i - 1) : ~IsLoadImage(w[j])

\* C1: within one invocation the POST to 'prompt' is issued at most once, it
\* precedes every history GET, every history GET precedes every read of an
\* output file, and every history GET uses the prompt_id the POST returned.
C1_SubmitPollExtractOrder ==
    /\ Cardinality(LogIdx("post")) <= 1
    /\ \A g \in LogIdx("get") :
          \E p \in LogIdx("post") :
             /\ p < g
             /\ log[p].reply.decodes
             /\ log[g].id = Get(log[p].reply.json, "prompt_id")
    /\ \A r \in LogIdx("read") :
          /\ LogIdx("get") # {}
          /\ \A g \in LogIdx("get") : g < r

C1_Witness ==
    /\ pc = "done"
    /\ Cardinality(LogIdx("get")) >= 2
    /\ Cardinality(LogIdx("read")) >= 2

\* C2: no exception propagates out of handler: whichever stage raised, the
\* invocation has ended and returned {error: <message of the exception>}.
C2_NoExceptionEscapes ==
    /\ ~escaped
    /\ raised # NoExc => pc = "done" /\ result = [error |-> raised.msg]

C2_Witness ==
    /\ pc = "done"
    /\ raised.cls = "FileNotFoundError"
    /\ Len(images) = 1

\* C3: when the POST to 'prompt' is answered with a status other than 200,
\* the invocation ends with a result of the form {error: ...} and no history
\* GET is issued.
C3_RejectedSubmissionIsError ==
    \A p \in LogIdx("post") :
        (pc = "done" /\ log[p].reply # NoResponse
                     /\ log[p].reply.status_code # 200)
        => ("error" \in DOMAIN result /\ LogIdx("get") = {})

\* C4: when the validated payload has no 'workflow' key, handler returns
\* exactly {error: "Missing workflow in payload"}, makes no HTTP call and
\* writes nothing to the input directory, even if init_image is present.
C4_MissingWorkflow ==
    (HasPayload /\ "workflow" \notin DOMAIN Payload)
    => /\ pc = "done"
       /\ result = [error |-> "Missing workflow in payload"]
       /\ log = <<>>
       /\ initFile = NoFile

C4_Witness ==
    /\ pc = "done"
    /\ HasPayload
    /\ "workflow" \notin DOMAIN Payload
    /\ SuppliesInitImage

\* C5: when validation reports errors, handler returns {error: <the
\* validator's error list>} with the list unchanged and no later stage runs:
\* no file write, no POST, no history GET.
C5_ValidationErrors ==
    "errors" \in DOMAIN validated_input
    => /\ pc = "done"
       /\ result = [error |-> validated_input.errors]
       /\ log = <<>>
       /\ initFile = NoFile

C5_Witness ==
    /\ pc = "done"
    /\ "errors" \in DOMAIN validated_input
    /\ Len(validated_input.errors) = 2

\* C6: when the payload has no init_image string (absent, or not a string),
\* nothing is written to the input directory, no node is modified and the
\* body posted to 'prompt' is {prompt: W}, W being the input workflow.
C6_NoInitImageNoPatch ==
    (HasWorkflow /\ ~SuppliesInitImage)
    => /\ LogIdx("write") = {}
       /\ initFile = NoFile
       /\ workflow = InputWorkflow
       /\ \A p \in LogIdx("post") : log[p].body = [prompt |-> InputWorkflow]

C6_Witness ==
    /\ LogIdx("post") # {}
    /\ HasWorkflow
    /\ "init_image" \in DOMAIN Payload
    /\ ~SuppliesInitImage
    /\ SomeLoadImage(InputWorkflow)

\* C7: when an init_image string is supplied and some node's class_type,
\* lower-cased, starts with "loadimage", the workflow posted to 'prompt' is
\* the input workflow in which the first such node, and no other node, has
\* inputs.image set to the path of the written file.
C7_FirstLoadImagePatched ==
    \A p \in LogIdx("post") :
        (SuppliesInitImage /\ SomeLoadImage(InputWorkflow))
        => LET W == InputWorkflow
               f == FirstLoadImage(W)
               S == log[p].body.prompt
           IN  /\ Len(S) = Len(W)
               /\ \A i \in 1..Len(W) : i # f => S[i] = W[i]
               /\ DOMAIN S[f] = DOMAIN W[f]
               /\ S[f].class_type = W[f].class_type
               /\ DOMAIN S[f].inputs = DOMAIN W[f].inputs \cup {"image"}
               /\ S[f].inputs.image = InitImagePath
               /\ initFile = FileOf(B64Decode(Payload.init_image.val))

C7_Witness ==
    /\ LogIdx("post") # {}
    /\ SuppliesInitImage
    /\ Cardinality({i \in 1..Len(InputWorkflow) :
                        IsLoadImage(InputWorkflow[i])}) >= 2

\* C8: when an init_image string is supplied and no node's class_type,
\* lower-cased, starts with "loadimage", the patch step does not fail: once
\* the image is saved the workflow is posted to 'prompt' unchanged.
C8_NoLoadImageNoFailure ==
    (HasWorkflow /\ SuppliesInitImage /\ ~SomeLoadImage(InputWorkflow)
        /\ pc \notin {"validate", "patch"})
    => \/ raised.cls \in {"OSError", "binascii.Error"} /\ LogIdx("post") = {}
       \/ /\ workflow = InputWorkflow
          /\ pc # "submit" => LogIdx("post") # {}
          /\ \A p \in LogIdx("post") : log[p].body = [prompt |-> InputWorkflow]

C8_Witness ==
    /\ pc = "poll"
    /\ SuppliesInitImage
    /\ InputWorkflow # <<>>
    /\ ~SomeLoadImage(InputWorkflow)

\* the poll step received a response (session.get did not raise)
GotHistoryResponse == pc = "poll" /\ raised'.cls # "ConnectionError"

\* C9 as stated: every history response that is non-200 or has an empty
\* body is followed by the sleep and another history GET.
C9_EveryOtherResponseRetried ==
    [][(GotHistoryResponse
          /\ (response'.status_code # 200
              \/ (response'.decodes /\ response'.json = EmptyDict)))
       => pc' = "sleep"]_vars

\* C9, amended: the polling loop leaves for the output check exactly on a
\* response with status 200 and a non-empty decoded body; every other
\* response whose body decodes as JSON is followed by the sleep and another
\* history GET, without a bound; a response whose body does not decode as
\* JSON ends the invocation with {error: ...}.
C9_PollingLoop ==
    [][/\ GotHistoryResponse =>
            IF ~response'.decodes
            THEN pc' = "done" /\ "error" \in DOMAIN result'
            ELSE IF response'.status_code = 200 /\ response'.json # EmptyDict
            THEN pc' = "check"
            ELSE pc' = "sleep"
       /\ pc = "sleep" => pc' = "poll" /\ result' = result
      ]_vars

C9_Witness ==
    /\ pc = "sleep"
    /\ Cardinality(LogIdx("get")) = MaxPolls
    /\ response.status_code = 500
    /\ resp_json # EmptyDict

\* C10: if every call returns and the engine eventually answers a history
\* GET with status 200 and a non-empty body, every invocation eventually
\* returns a result.
C10_InvocationTerminates == (pc = "validate") ~> (pc = "done")

C10_Witness ==
    /\ pc = "done"
    /\ "images" \in DOMAIN result
    /\ Cardinality(LogIdx("get")) >= 2

\* the polling loop was left through its break
LoopExited ==
    /\ pc \in {"check", "read", "done"}
    /\ LogIdx("get") # {}
    /\ raised.cls \notin {"ConnectionError", "RetryError"}
    /\ response.status_code = 200
    /\ response.decodes
    /\ response.json # EmptyDict
    /\ resp_json = response.json

HasEntry == prompt_id \in DOMAIN resp_json

HasOutputs == HasEntry /\ "outputs" \in DOMAIN resp_json[prompt_id]

\* the outputs mapping the engine reported
Outputs == resp_json[prompt_id].outputs

NoOutputMessage == "No output found, check model and workflow validity"

\* C11 as stated: when the polling loop has exited and 'outputs' for the
\* prompt_id is empty or absent, the invocation ends with {error: "No output
\* found, check model and workflow validity"} and no output file is read.
C11_EmptyOrAbsentOutputs ==
    (pc = "done" /\ LoopExited /\ HasEntry /\ (HasOutputs => Outputs = <<>>))
    => /\ result = [error |-> NoOutputMessage]
       /\ LogIdx("read") = {}

\* C11, amended: when the polling loop has exited and 'outputs' for the
\* prompt_id is present and empty, the invocation ends with {error: "No
\* output found, check model and workflow validity"}; when the 'outputs' key
\* is absent it ends with {error: "'outputs'"}, the message of the KeyError;
\* in both cases no output file is read.
C11_NoOutput ==
    (pc = "done" /\ LoopExited /\ HasEntry)
    => /\ (HasOutputs /\ Outputs = <<>>)
            => result = [error |-> NoOutputMessage] /\ LogIdx("read") = {}
       /\ ~HasOutputs
            => result = [error |-> "'outputs'"] /\ LogIdx("read") = {}

C11_Witness ==
    /\ pc = "done"
    /\ LoopExited
    /\ HasOutputs
    /\ Outputs = <<>>
    /\ result = [error |-> NoOutputMessage]

HasImagesList(entry) ==
    "images" \in DOMAIN entry /\ entry.images.type = "list"

\* the images of the first entry that satisfies Selected, [] if there is none
FirstImages(outputs, Selected(_)) ==
    IF \E i \in 1..Len(outputs) : Selected(outputs[i])
    THEN LET f == CHOOSE i \in 1..Len(outputs) :
                    /\ Selected(outputs[i])
                    /\ \A j \in 1..(i - 1) : ~Selected(outputs[j])
         IN  outputs[f].images.val
    ELSE <<>>

HasNonEmptyImagesList(entry) == HasImagesList(entry) /\ entry.images.val # <<>>

\* C12 as stated: get_filenames returns the images list of the first entry
\* that contains a non-empty images sequence, so that an earlier entry with
\* images: [] does not hide a later entry that has images.
C12_FirstNonEmptyImages ==
    pc = "read" => image_filenames = FirstImages(Outputs, HasNonEmptyImagesList)

\* C12, amended: get_filenames scans the outputs mapping in stored order and
\* returns the images list of the first entry whose 'images' is a list, empty
\* or not; it returns an empty sequence if no entry has an images list (so an
\* earlier entry with images: [] hides a later entry that has images).
C12_FirstImagesList ==
    pc = "read" => image_filenames = FirstImages(Outputs, HasImagesList)

C12_Witness ==
    /\ pc = "read"
    /\ Len(Outputs) = 2
    /\ HasImagesList(Outputs[1])
    /\ Outputs[1].images.val = <<>>
    /\ HasNonEmptyImagesList(Outputs[2])
    /\ image_filenames = <<>>

\* C13: no partial results accompany an error: when the read of an output
\* file fails the result is {error: <message>} alone, and a result that
\* contains 'images' never contains 'error'.
C13_NoPartialResults ==
    pc = "done"
    => /\ ~("images" \in DOMAIN result /\ "error" \in DOMAIN result)
       /\ raised.cls = "FileNotFoundError" => DOMAIN result = {"error"}

C13_Witness ==
    /\ pc = "done"
    /\ raised.cls = "FileNotFoundError"
    /\ Len(image_filenames) = 2
    /\ Len(images) = 1
    /\ Cardinality(LogIdx("read")) = 2

\* the POST was answered 200 with a decodable body that carries no prompt_id
\* or an empty one
AcceptedWithoutPromptId(reply) ==
    /\ reply.status_code = 200
    /\ reply.decodes
    /\ \/ "prompt_id" \notin DOMAIN reply.json
       \/ reply.json.prompt_id = ""

\* C17: when the POST to 'prompt' returns status 200 but the body carries no
\* prompt_id (missing or empty), the invocation ends with the result {error:
\* "No prompt_id returned by ComfyUI"} and no history GET is ever issued.
C17_NoPromptId ==
    \A p \in LogIdx("post") :
       AcceptedWithoutPromptId(log[p].reply)
       => /\ pc = "done"
          /\ result = [error |-> "No prompt_id returned by ComfyUI"]
          /\ LogIdx("get") = {}

C17_Witness ==
    /\ pc = "done"
    /\ \E p \in LogIdx("post") :
          /\ AcceptedWithoutPromptId(log[p].reply)
          /\ "prompt_id" \in DOMAIN log[p].reply.json
    /\ result = [error |-> "No prompt_id returned by ComfyUI"]

\* the base64 text of the two output files of the model
ExpectedEncoding(filename) ==
    IF filename = "out.png"
    THEN <<"i", "V", "B", "O", "R", "w", "=", "=">>
    ELSE <<"Q", "g", "=", "=">>

\* the paths of the output files read, in the order of the reads
ReadPaths ==
    LET reads == SelectSeq(log, LAMBDA e : e.op = "read")
    IN  [i \in 1..Len(reads) |-> reads[i].path]

Completed == pc = "done" /\ "images" \in DOMAIN result

\* C18: on Completed the returned images sequence has exactly one entry per
\* element of the images list of the first entry of outputs that has one, in
\* the same order, each the base64 text of the file read from
\* <mount>/ComfyUI/output/<filename>; when outputs is non-empty and no entry
\* carries an images list the invocation completes with {images: []}.
C18_ImagesResult ==
    /\ Completed
       => LET selected == FirstImages(Outputs, HasImagesList)
          IN  /\ Len(result.images) = Len(selected)
              /\ Len(ReadPaths) = Len(selected)
              /\ \A i \in 1..Len(selected) :
                    /\ ReadPaths[i] = <<VOLUME_MOUNT_PATH, "/ComfyUI/output/",
                                        selected[i].filename>>
                    /\ result.images[i] = ExpectedEncoding(selected[i].filename)
    /\ (pc = "done" /\ LoopExited /\ HasOutputs /\ Outputs # <<>>
        /\ \A i \in 1..Len(Outputs) : ~HasImagesList(Outputs[i]))
       => result = [images |-> <<>>]

C18_Witness ==
    /\ Completed
    /\ Len(result.images) = 2
    /\ result.images[1] = ExpectedEncoding("out.png")
    /\ result.images[2] = ExpectedEncoding("b.png")

\* the init image was saved and the patch loop ran to its end
Patched == pc = "submit" /\ LogIdx("write") # {}

\* C19: the init-image patch is idempotent: applied to a workflow already
\* patched with the same init image it raises nothing, selects the same node
\* and leaves the workflow equal to the once-patched workflow.
C19_PatchIdempotent ==
    Patched
    => LET again == PatchLoop(workflow, 1, InitImagePath)
       IN  /\ again.exc = NoExc
           /\ again.workflow = workflow
           /\ SomeLoadImage(InputWorkflow)
                => /\ SomeLoadImage(workflow)
                   /\ FirstLoadImage(workflow) = FirstLoadImage(InputWorkflow)

C19_Witness ==
    /\ Patched
    /\ Len(workflow) = 2
    /\ IsLoadImage(workflow[1])
    /\ IsLoadImage(workflow[2])
    /\ workflow[1].inputs.image = InitImagePath
    /\ workflow # InputWorkflow

\* positions inside wait_for_service
ProbePositions == {"probe", "probe_sleep"}

\* C14: the handler is registered only after wait_for_service has returned:
\* whenever the process is past the readiness probe, and whenever an
\* invocation has issued any I/O (a POST to 'prompt' in particular), some
\* request to 'system_stats' has completed without raising.
C14_HandlerAfterProbe ==
    /\ pc \notin ProbePositions => probed
    /\ log # <<>> => probed

C14_Witness ==
    /\ probed
    /\ LogIdx("post") # {}
    /\ notice = "Starting RunPod Serverless..."

\* C16: wait_for_service returns exactly on an attempt whose request
\* completes without raising, whatever the status code; every attempt that
\* raises, a RequestException or any other Exception, is followed by the
\* sleep and then another attempt, and never by a return or a crash.
C16_WaitForService ==
    [][/\ pc = "probe"
          => IF attempt'.kind = "response"
             THEN pc' = "ready"
             ELSE pc' = "probe_sleep"
       /\ pc = "probe_sleep" => pc' = "probe"
       /\ pc' = "ready" => pc = "probe" /\ attempt'.kind = "response"
      ]_vars

C16_Witness ==
    /\ pc = "ready"
    /\ attempt.kind = "response"
    /\ attempt.status = 500
    /\ retries > 0

\* C15 as stated: a 502, 503 or 504 answer to a GET or to a POST is retried
\* by the session, so the handler observes such a status only when the
\* RetryTotal retries of the call are used up, and the invocation then ends
\* with {error: <message>}.
C15_TransientAbsorbed ==
    response.status_code \in StatusForcelist
    => /\ tries = RetryTotal
       /\ pc = "done"
       /\ DOMAIN result = {"error"}

\* C15, amended: the session makes at most RetryTotal retries per call; it
\* retries only the history GET, unseen by the handler; when a GET has used
\* up its retries the call raises and the invocation ends with {error:
\* <message>}; a response with status 502, 503 or 504 reaches the handler
\* only as the answer to the POST, at once, and the invocation then ends
\* with the decoded body as its result, or with {error: <message>} when the
\* body does not decode.
C15_GetRetriedPostNot ==
    [][/\ tries' <= RetryTotal
       /\ tries' > tries
          => /\ pc = "poll" /\ pc' = "poll"
             /\ tries' = tries + 1
             /\ UNCHANGED <<response, resp_json, result, raised, log>>
       /\ raised'.cls = "RetryError"
          => /\ pc' = "done"
             /\ tries' = RetryTotal
             /\ LogIdx("get")' # {}
             /\ result' = [error |-> raised'.msg]
       /\ response'.status_code \in StatusForcelist
          => /\ pc' = "done"
             /\ tries' = 0
             /\ LogIdx("get")' = {}
             /\ IF response'.decodes
                THEN result' = response'.json
                ELSE result' = [error |-> raised'.msg]
      ]_vars

C15_Witness ==
    /\ pc = "done"
    /\ raised.cls = "RetryError"
    /\ tries = RetryTotal
    /\ result = [error |-> raised.msg]

\* some LoadImage node of the workflow reads the init image path
PointsAtInitImage(w) ==
    \E i \in 1..Len(w) :
       /\ IsLoadImage(w[i])
       /\ "inputs" \in DOMAIN w[i]
       /\ "image" \in DOMAIN w[i].inputs
       /\ w[i].inputs.image = InitImagePath

\* C20: when two invocations that each supply an init_image run
\* concurrently, then at the moment an invocation posts its workflow the
\* file at the path written into its patched node holds that invocation's
\* own decoded image.
C20_OwnImageAtPost ==
    \A w \in Workers :
       (workers[w].posted /\ PointsAtInitImage(workers[w].workflow))
       => workers[w].fileAtPost = FileOf(B64Decode(workers[w].init_image))

====
